---- MODULE Spec2Model ----
(***************************************************************************)
(* State-machine model of the post interaction and lifecycle engine of     *)
(* mingle: the Post model (src/models/Post.js) and the post routes         *)
(* (src/unnamed/part_002, lines 1-321), and the topic routes               *)
(* (src/unnamed/part_003).                                                 *)
(*                                                                         *)
(* Spec      requests are handled one after the other; every handler is    *)
(*           one action.  The clock may advance between the Date.now()     *)
(*           readings of one handler.                                      *)
(* ConcSpec  like/dislike handlers are split at their awaits (findById,    *)
(*           refreshPostStatusIfNeeded, save), so that requests on the     *)
(*           same post interleave as the Node event loop allows.           *)
(* StoreSpec   several posts of one owner, votes, and the topic routes.    *)
(* ThreadSpec  one post and a thread of comments.                          *)
(* CreateSpec  POST /api/posts with every request body of the model.       *)
(* PairSpec    two posts, votes and comments of one other user.            *)
(***************************************************************************)
EXTENDS Integers, Sequences, FiniteSets, TLC

VARIABLES
    posts,      \* the posts collection: _id -> stored document
    now,        \* the last value Date.now() returned
    res,        \* the last HTTP response sent
    inflight,   \* ConcSpec: slot -> request suspended at an await
    acked       \* ConcSpec: post, user -> message of the last 200 vote response

vars == <<posts, now, res, inflight, acked>>

----------------------------------------------------------------------------
(* Bounds of the model *)

\* StoreSpec: posts the collection may hold
MaxPosts == 3
\* ThreadSpec: comments accepted per post
MaxThread == 2
\* CreateSpec: posts the collection may hold
MaxCreated == 2
\* PairSpec: posts the collection may hold
MaxPair == 2

\* the clock takes the values 0, TickMs, ..., MaxTime * TickMs
MaxTime == 2
\* comments accepted per post
MaxComments == 1
\* ConcSpec: vote entries a post may hold when a further vote request starts
MaxVotes == 2

----------------------------------------------------------------------------
(* Values *)

TOPICS == {"Politics", "Health", "Sport", "Tech"}

MsPerMinute == 60 * 1000
\* granularity of the modelled clock
TickMs == MsPerMinute
ClockValues == {k * TickMs : k \in 0..MaxTime}
Later(t) == {s \in ClockValues : s >= t}

\* authenticated identities {userId, name} handed over by authRequired
Users == {"alice", "bob", "carol"}
Identity(u) == [userId |-> u, name |-> u]

\* ObjectIds the store assigns to created posts, in order
IdPool == <<"p1", "p2", "p3", "p4", "p5">>
\* Spec and ConcSpec: the posts the collection may hold
PostIds == <<"p1">>
\* Spec and ConcSpec: well-formed ObjectIds requests carry; "p0" is the id
\* of no post
ObjectIds == {PostIds[i] : i \in 1..Len(PostIds)} \cup {"p0"}
\* ids a request may carry
RequestIds == ObjectIds \cup {"not-an-id"}

isValidObjectId(id) == id \in {IdPool[i] : i \in 1..Len(IdPool)} \cup {"p0"}

\* strings are sequences of characters
Chars(n, c) == [i \in 1..n |-> c]

RECURSIVE TrimStart(_)
TrimStart(s) ==
    IF s # <<>> /\ Head(s) = " " THEN TrimStart(Tail(s)) ELSE s

RECURSIVE TrimEnd(_)
TrimEnd(s) ==
    IF s # <<>> /\ s[Len(s)] = " " THEN TrimEnd(SubSeq(s, 1, Len(s) - 1)) ELSE s

\* String.prototype.trim
trim(s) == TrimEnd(TrimStart(s))

Response(code, msg, data) == [code |-> code, msg |-> msg, data |-> data]
NoData == [none |-> TRUE]
Error(code, msg) == Response(code, msg, NoData)

ExpiredMsg == "Post expired; no further interactions allowed"

----------------------------------------------------------------------------
(* Status resolution *)

\* variant: the expiry instant itself still counts as Live
computeStatus_inclusive(expiresAt, t) ==
    IF t <= expiresAt THEN "Live" ELSE "Expired"

computeStatus(expiresAt, t) ==
    IF t < expiresAt THEN "Live" ELSE "Expired"

\* variant: the save stamps createdAt anew
preSave_stampsCreatedAt(doc, t) ==
    [doc EXCEPT !.status = IF t < doc.expiresAt THEN "Live" ELSE "Expired",
                !.createdAt = t]

\* PostSchema.pre("save"): t is the hook's own Date.now()
preSave(doc, t) ==
    [doc EXCEPT !.status = IF t < doc.expiresAt THEN "Live" ELSE "Expired"]

----------------------------------------------------------------------------
(* Document save.  The schema sets no optimisticConcurrency option, so     *)
(* save() sends the paths modified since the fetch: a changed scalar is    *)
(* $set, elements pushed onto an array are $push-ed onto the stored array, *)
(* a reassigned array is $set whole.  Only an update that $sets an array   *)
(* carries the version condition; it fails (VersionError) when a save that *)
(* changed an array of the stored document landed after the fetch, which   *)
(* the flag stale records.                                                 *)
(*   stored  the document in the collection                                *)
(*   base    the document as fetched (or as last saved by this request)    *)
(*   doc     the document in memory                                        *)
(*   t       Date.now() read by the pre-save hook                          *)

ArrayPaths == {"likedBy", "dislikedBy", "comments"}

IsPush(b, d) == Len(d) > Len(b) /\ SubSeq(d, 1, Len(b)) = b

SetsArray(base, doc) ==
    \E f \in ArrayPaths : doc[f] # base[f] /\ ~IsPush(base[f], doc[f])

TouchesArray(base, doc) == \E f \in ArrayPaths : doc[f] # base[f]

save(stored, base, doc0, stale, t) ==
    LET doc == preSave(doc0, t)
    IN  IF SetsArray(base, doc) /\ stale
        THEN [ok |-> FALSE, stored |-> stored, doc |-> doc]
        ELSE [ok |-> TRUE,
              stored |->
                [f \in DOMAIN stored |->
                    IF doc[f] = base[f] THEN stored[f]
                    ELSE IF f \in ArrayPaths /\ IsPush(base[f], doc[f])
                         THEN stored[f] \o
                              SubSeq(doc[f], Len(base[f]) + 1, Len(doc[f]))
                         ELSE doc[f]],
              doc |-> doc]

\* variant: the resolved status is returned but never saved
refreshPostStatusIfNeeded_noSave(stored, post, t, ts) ==
    LET statusNow == IF t < post.expiresAt THEN "Live" ELSE "Expired"
    IN  [statusNow |-> statusNow, post |-> [post EXCEPT !.status = statusNow],
         stored |-> stored, clock |-> t]

\* refreshPostStatusIfNeeded: t is the Date.now() of computeStatus, ts that
\* of the pre-save hook when the status is saved
refreshPostStatusIfNeeded(stored, post, t, ts) ==
    LET statusNow == computeStatus(post.expiresAt, t)
    IN  IF post.status # statusNow
        THEN LET s == save(stored, post, [post EXCEPT !.status = statusNow],
                           FALSE, ts)
             IN  [statusNow |-> statusNow, post |-> s.doc,
                  stored |-> s.stored, clock |-> ts]
        ELSE [statusNow |-> statusNow, post |-> post,
              stored |-> stored, clock |-> t]

----------------------------------------------------------------------------
(* Vote engine: the synchronous part of the like and dislike handlers,     *)
(* from the duplicate check to the counters, on the document in memory     *)

some(arr, u) == \E i \in 1..Len(arr) : arr[i] = u
\* variant: the filter drops every entry
without_clears(arr, u) == SubSeq(arr, 1, 0)
without(arr, u) == SelectSeq(arr, LAMBDA x : x # u)
Max0(n) == IF n < 0 THEN 0 ELSE n

\* variant: no owner check
isOwner_never(post, u) == FALSE

\* post.owner.userId.toString() === req.user.userId
isOwner(post, u) == post.owner.userId = u

\* variants: no duplicate check
alreadyLiked_never(post, u) == FALSE
alreadyDisliked_never(post, u) == FALSE

alreadyLiked(post, u) == some(post.likedBy, u)
alreadyDisliked(post, u) == some(post.dislikedBy, u)

\* variant: the toggle removes the dislike but keeps its count
likeApply_keepsDislikesCount(post, u) ==
    LET p1 == [post EXCEPT !.dislikedBy = SelectSeq(post.dislikedBy, LAMBDA x : x # u)]
    IN  [p1 EXCEPT !.likedBy = Append(p1.likedBy, u),
                   !.likesCount = p1.likesCount + 1]

likeApply(post, u) ==
    LET wasDisliked == some(post.dislikedBy, u)
        p1 == IF wasDisliked
              THEN [post EXCEPT !.dislikedBy = without(post.dislikedBy, u),
                                !.dislikesCount = Max0(post.dislikesCount - 1)]
              ELSE post
    IN  [p1 EXCEPT !.likedBy = Append(p1.likedBy, u),
                   !.likesCount = p1.likesCount + 1]

\* variant: the dislike is added without removing the like
dislikeApply_keepsLike(post, u) ==
    [post EXCEPT !.dislikedBy = Append(post.dislikedBy, u),
                 !.dislikesCount = post.dislikesCount + 1]

dislikeApply(post, u) ==
    LET wasLiked == some(post.likedBy, u)
        p1 == IF wasLiked
              THEN [post EXCEPT !.likedBy = without(post.likedBy, u),
                                !.likesCount = Max0(post.likesCount - 1)]
              ELSE post
    IN  [p1 EXCEPT !.dislikedBy = Append(p1.dislikedBy, u),
                   !.dislikesCount = p1.dislikesCount + 1]

Counts(post) ==
    [likesCount |-> post.likesCount, dislikesCount |-> post.dislikesCount]

----------------------------------------------------------------------------
(* Handlers, run from the first line to the response.  Each returns the    *)
(* collection, the response and the last clock value it read.              *)
(*   t   Date.now() of computeStatus                                       *)
(*   ts  Date.now() of the pre-save hook of the status refresh             *)
(*   t2  Date.now() of the pre-save hook of the final save                 *)

Outcome(store, response, clock) ==
    [posts |-> store, res |-> response, clock |-> clock]

\* variant: the vote is put on the document before the gate, and the save
\* of the refreshed status writes it
likeRequest_votesBeforeGate(store, id, u, t, ts, t2) ==
    IF ~isValidObjectId(id) THEN Outcome(store, Error(400, "Invalid post id"), t)
    ELSE IF id \notin DOMAIN store
    THEN Outcome(store, Error(404, "Post not found"), t)
    ELSE IF isOwner(store[id], u)
    THEN Outcome(store,
                 Error(403, "Post owners cannot like their own posts"), t)
    ELSE
    LET r == refreshPostStatusIfNeeded(store[id], store[id], t, ts)
        w == save(store[id], store[id], likeApply(r.post, u), FALSE, ts)
        store1 == [store EXCEPT ![id] = IF r.stored # store[id]
                                        THEN w.stored ELSE r.stored]
    IN  IF r.statusNow # "Live"
        THEN Outcome(store1, Error(403, ExpiredMsg), r.clock)
        ELSE IF alreadyLiked(r.post, u)
        THEN Outcome(store1, Error(409, "You already liked this post"), r.clock)
        ELSE
        LET s == save(r.stored, r.post, likeApply(r.post, u), FALSE, t2)
        IN  Outcome([store EXCEPT ![id] = s.stored],
                    Response(200, "Liked", Counts(s.doc)), t2)

\* POST /api/posts/:id/like
likeRequest(store, id, u, t, ts, t2) ==
    IF ~isValidObjectId(id) THEN Outcome(store, Error(400, "Invalid post id"), t)
    ELSE IF id \notin DOMAIN store
    THEN Outcome(store, Error(404, "Post not found"), t)
    ELSE IF isOwner(store[id], u)
    THEN Outcome(store,
                 Error(403, "Post owners cannot like their own posts"), t)
    ELSE
    LET r == refreshPostStatusIfNeeded(store[id], store[id], t, ts)
        store1 == [store EXCEPT ![id] = r.stored]
    IN  IF r.statusNow # "Live"
        THEN Outcome(store1, Error(403, ExpiredMsg), r.clock)
        ELSE IF alreadyLiked(r.post, u)
        THEN Outcome(store1, Error(409, "You already liked this post"), r.clock)
        ELSE
        LET s == save(r.stored, r.post, likeApply(r.post, u), FALSE, t2)
        IN  Outcome([store EXCEPT ![id] = s.stored],
                    Response(200, "Liked", Counts(s.doc)), t2)

\* POST /api/posts/:id/dislike
dislikeRequest(store, id, u, t, ts, t2) ==
    IF ~isValidObjectId(id) THEN Outcome(store, Error(400, "Invalid post id"), t)
    ELSE IF id \notin DOMAIN store
    THEN Outcome(store, Error(404, "Post not found"), t)
    ELSE IF isOwner(store[id], u)
    THEN Outcome(store,
                 Error(403, "Post owners cannot dislike their own posts"), t)
    ELSE
    LET r == refreshPostStatusIfNeeded(store[id], store[id], t, ts)
        store1 == [store EXCEPT ![id] = r.stored]
    IN  IF r.statusNow # "Live"
        THEN Outcome(store1, Error(403, ExpiredMsg), r.clock)
        ELSE IF alreadyDisliked(r.post, u)
        THEN Outcome(store1,
                     Error(409, "You already disliked this post"), r.clock)
        ELSE
        LET s == save(r.stored, r.post, dislikeApply(r.post, u), FALSE, t2)
        IN  Outcome([store EXCEPT ![id] = s.stored],
                    Response(200, "Disliked", Counts(s.doc)), t2)

\* comment texts a request may carry: valid, empty, blank, too long
CommentTexts ==
    { <<" ", "h", "i", " ">>, <<>>, <<" ", " ">>, Chars(501, "c") }

\* variant: the new comment is put in front of the others
commentApply_prepends(post, u, text, tc) ==
    [post EXCEPT !.comments =
        <<[user |-> Identity(u), text |-> text, createdAt |-> tc]>> \o @]

\* post.comments.push({ user, text, createdAt: new Date() })
commentApply(post, u, text, tc) ==
    [post EXCEPT !.comments =
        Append(@, [user |-> Identity(u), text |-> text, createdAt |-> tc])]

\* variant: owners are barred from commenting on their own posts
commentRequest_ownersBarred(store, id, u, rawText, t, ts, tc, t2) ==
    IF ~isValidObjectId(id) THEN Outcome(store, Error(400, "Invalid post id"), t)
    ELSE
    LET text == trim(rawText)
    IN  IF Len(text) < 1 \/ Len(text) > 500
        THEN Outcome(store, Error(400, "Comment must be 1-500 characters"), t)
        ELSE IF id \notin DOMAIN store
        THEN Outcome(store, Error(404, "Post not found"), t)
        ELSE
        IF isOwner(store[id], u)
        THEN Outcome(store, Error(403, "Post owners cannot comment"), t)
        ELSE
        LET r == refreshPostStatusIfNeeded(store[id], store[id], t, ts)
            store1 == [store EXCEPT ![id] = r.stored]
        IN  IF r.statusNow # "Live"
            THEN Outcome(store1, Error(403, ExpiredMsg), r.clock)
            ELSE
            LET s == save(r.stored, r.post,
                          commentApply(r.post, u, text, tc), FALSE, t2)
            IN  Outcome([store EXCEPT ![id] = s.stored],
                        Response(201, "Comment added",
                                 [commentsCount |-> Len(s.doc.comments),
                                  comment |-> s.doc.comments[Len(s.doc.comments)]]),
                        t2)

\* POST /api/posts/:id/comments; tc is the new Date() of the comment
commentRequest(store, id, u, rawText, t, ts, tc, t2) ==
    IF ~isValidObjectId(id) THEN Outcome(store, Error(400, "Invalid post id"), t)
    ELSE
    LET text == trim(rawText)
    IN  IF Len(text) < 1 \/ Len(text) > 500
        THEN Outcome(store, Error(400, "Comment must be 1-500 characters"), t)
        ELSE IF id \notin DOMAIN store
        THEN Outcome(store, Error(404, "Post not found"), t)
        ELSE
        LET r == refreshPostStatusIfNeeded(store[id], store[id], t, ts)
            store1 == [store EXCEPT ![id] = r.stored]
        IN  IF r.statusNow # "Live"
            THEN Outcome(store1, Error(403, ExpiredMsg), r.clock)
            ELSE
            LET s == save(r.stored, r.post,
                          commentApply(r.post, u, text, tc), FALSE, t2)
            IN  Outcome([store EXCEPT ![id] = s.stored],
                        Response(201, "Comment added",
                                 [commentsCount |-> Len(s.doc.comments),
                                  comment |-> s.doc.comments[Len(s.doc.comments)]]),
                        t2)

\* GET /api/posts/:id
getRequest(store, id, t, ts) ==
    IF ~isValidObjectId(id) THEN Outcome(store, Error(400, "Invalid post id"), t)
    ELSE IF id \notin DOMAIN store
    THEN Outcome(store, Error(404, "Post not found"), t)
    ELSE
    LET r == refreshPostStatusIfNeeded(store[id], store[id], t, ts)
    IN  Outcome([store EXCEPT ![id] = r.stored],
                Response(200, "post", r.post), r.clock)

----------------------------------------------------------------------------
(* Post creation *)

\* a JSON value of the request body: absent, an integer, a date string that
\* parses to n milliseconds, or a string that parses to nothing
Undefined == [kind |-> "undefined", n |-> 0]
Number(n) == [kind |-> "int", n |-> n]
DateString(ms) == [kind |-> "date", n |-> ms]
Garbage == [kind |-> "garbage", n |-> 0]

\* a topics value: an array of strings, or something that is no array
Array(items) == [isArray |-> TRUE, items |-> items]
NotAnArray == [isArray |-> FALSE, items |-> <<>>]

\* Number.parseInt(value, 10), then the fallback for NaN
toInt(value, fallback) ==
    IF value.kind = "int" THEN value.n ELSE fallback

\* variant: an empty topic list passes
isValidTopicList_allowsEmpty(topics) ==
    /\ topics.isArray
    /\ \A i \in 1..Len(topics.items) : topics.items[i] \in TOPICS

isValidTopicList(topics) ==
    /\ topics.isArray
    /\ Len(topics.items) > 0
    /\ \A i \in 1..Len(topics.items) : topics.items[i] \in TOPICS

\* the validators of PostSchema on the document handed to Post.create
schemaValid(doc) ==
    /\ Len(doc.title) >= 2 /\ Len(doc.title) <= 120
    /\ Len(doc.topics) > 0
    /\ \A i \in 1..Len(doc.topics) : doc.topics[i] \in TOPICS
    /\ Len(doc.body) >= 1 /\ Len(doc.body) <= 2000

nextId(store) ==
    IdPool[Cardinality(DOMAIN store) + 1]

\* POST /api/posts; t is the Date.now() of the route, ts that of the hook
createRequest(store, u, b, t, ts) ==
    LET title == trim(b.title)
        body == trim(b.body)
        mins == toInt(b.expiresInMinutes, 60)
        fromRaw == b.expiresAt.kind # "undefined"
        expiresAt == IF fromRaw THEN b.expiresAt.n ELSE t + mins * 60 * 1000
    IN  IF Len(title) < 6 \/ Len(title) > 120
        THEN Outcome(store, Error(400, "Title must be 6-120 characters"), t)
        ELSE IF Len(body) < 1 \/ Len(body) > 2000
        THEN Outcome(store, Error(400, "Body must be 1-2000 characters"), t)
        ELSE IF ~isValidTopicList(b.topics)
        THEN Outcome(store, Error(400, "Topics must include"), t)
        ELSE IF ~fromRaw /\ (mins < 1 \/ mins > 60 * 24 * 7)
        THEN Outcome(store,
                     Error(400, "expiresInMinutes must be 1 to 10080 (7 days)"), t)
        ELSE IF fromRaw /\ b.expiresAt.kind = "garbage"
        THEN Outcome(store, Error(400, "Invalid expiration time"), t)
        ELSE
        LET doc == [_id |-> nextId(store),
                    title |-> title,
                    topics |-> b.topics.items,
                    body |-> body,
                    createdAt |-> t,
                    expiresAt |-> expiresAt,
                    status |-> computeStatus(expiresAt, t),
                    owner |-> Identity(u),
                    likesCount |-> 0,
                    dislikesCount |-> 0,
                    likedBy |-> <<>>,
                    dislikedBy |-> <<>>,
                    comments |-> <<>>]
        IN  IF ~schemaValid(doc)
            THEN Outcome(store, Error(500, "ValidationError"), t)
            ELSE LET saved == preSave(doc, ts)
                 IN  Outcome([i \in DOMAIN store \cup {doc._id} |->
                                 IF i = doc._id THEN saved ELSE store[i]],
                             Response(201, "created", saved), ts)

\* request bodies of POST /api/posts
GoodBody ==
    [title |-> <<" ">> \o Chars(6, "t") \o <<" ">>,
     body |-> <<"b", " ">>,
     topics |-> Array(<<"Tech">>),
     expiresInMinutes |-> Undefined,
     expiresAt |-> DateString(TickMs)]

CreateBodies ==
    { GoodBody,
      [GoodBody EXCEPT !.expiresAt = DateString(2 * TickMs)],
      [GoodBody EXCEPT !.expiresAt = Undefined, !.expiresInMinutes = Number(1)],
      [GoodBody EXCEPT !.expiresAt = Undefined, !.expiresInMinutes = Number(0)],
      [GoodBody EXCEPT !.expiresAt = Undefined,
                       !.expiresInMinutes = Number(60 * 24 * 7 + 1)],
      [GoodBody EXCEPT !.expiresAt = Garbage],
      [GoodBody EXCEPT !.title = Chars(5, "t")],
      [GoodBody EXCEPT !.title = Chars(121, "t")],
      [GoodBody EXCEPT !.body = <<" ">>],
      [GoodBody EXCEPT !.body = Chars(2001, "b")],
      [GoodBody EXCEPT !.topics = Array(<<>>)],
      [GoodBody EXCEPT !.topics = Array(<<"Finance">>)],
      [GoodBody EXCEPT !.topics = Array(<<"Tech", "Finance">>)],
      [GoodBody EXCEPT !.topics = NotAnArray] }

----------------------------------------------------------------------------
(* Spec: one request at a time *)

Slots == {1, 2}
Idle == [pc |-> "idle"]
NoRequest == [s \in Slots |-> Idle]

Init ==
    /\ posts = << >>
    /\ now = 0
    /\ res = Response(0, "", NoData)
    /\ inflight = NoRequest
    /\ acked = [id \in ObjectIds |-> [u \in Users |-> ""]]

Apply(out) ==
    /\ posts' = out.posts
    /\ res' = out.res
    /\ now' = out.clock
    /\ UNCHANGED <<inflight, acked>>

Tick ==
    /\ now + TickMs \in ClockValues
    /\ now' = now + TickMs
    /\ UNCHANGED <<posts, res, inflight, acked>>

\* the clock values the pre-save hook of the status refresh may read: the
\* hook runs only when the stored status differs from the resolved one
RefreshReads(id) ==
    IF id \in DOMAIN posts
       /\ posts[id].status # computeStatus(posts[id].expiresAt, now)
    THEN Later(now) ELSE {now}

\* the clock values the later readings of a handler may return: they are
\* taken only when the handler gets as far as its final save
SaveReads(reached, t) == IF reached THEN Later(t) ELSE {t}

\* the outcomes POST /api/posts may have in the current state
createOutcomes(u, b) ==
    {createRequest(posts, u, b, now, ts) :
        ts \in SaveReads(createRequest(posts, u, b, now, now).res.code = 201, now)}

\* POST /api/posts while the collection does not come to hold more than n
\* posts
CreatePostUpTo(n, u, b) ==
    \E out \in createOutcomes(u, b) :
        /\ Cardinality(DOMAIN out.posts) <= n
        /\ Apply(out)

\* Spec and ConcSpec: creation requests arrive while the collection is not
\* full
CreatePost(u, b) ==
    /\ Cardinality(DOMAIN posts) < Len(PostIds)
    /\ CreatePostUpTo(Len(PostIds), u, b)

\* the outcomes a request may have in the current state, one for each way
\* the clock may advance while it is handled
getOutcomes(id) ==
    {getRequest(posts, id, now, ts) : ts \in RefreshReads(id)}

likeOutcomes(u, id) ==
    UNION {{likeRequest(posts, id, u, now, ts, t2) :
               t2 \in SaveReads(likeRequest(posts, id, u, now, ts, ts).res.code = 200, ts)} :
           ts \in RefreshReads(id)}

dislikeOutcomes(u, id) ==
    UNION {{dislikeRequest(posts, id, u, now, ts, t2) :
               t2 \in SaveReads(dislikeRequest(posts, id, u, now, ts, ts).res.code = 200, ts)} :
           ts \in RefreshReads(id)}

commentOutcomes(u, id, text) ==
    UNION {LET reached ==
                 commentRequest(posts, id, u, text, now, ts, ts, ts).res.code = 201
           IN  UNION {{commentRequest(posts, id, u, text, now, ts, tc, t2) :
                          t2 \in SaveReads(reached, tc)} :
                      tc \in SaveReads(reached, ts)} :
           ts \in RefreshReads(id)}

GetPost(id) ==
    \E out \in getOutcomes(id) : Apply(out)

Like(u, id) ==
    \E out \in likeOutcomes(u, id) : Apply(out)

Dislike(u, id) ==
    \E out \in dislikeOutcomes(u, id) : Apply(out)

\* POST /api/posts/:id/comments while no post comes to hold more than n
\* comments
CommentUpTo(n, u, id, text) ==
    \E out \in commentOutcomes(u, id, text) :
        /\ \A i \in DOMAIN out.posts : Len(out.posts[i].comments) <= n
        /\ Apply(out)

Comment(u, id, text) == CommentUpTo(MaxComments, u, id, text)

Next ==
    \/ Tick
    \/ \E u \in Users : \E b \in CreateBodies : CreatePost(u, b)
    \/ \E id \in RequestIds : GetPost(id)
    \/ \E u \in Users : \E id \in RequestIds : Like(u, id)
    \/ \E u \in Users : \E id \in RequestIds : Dislike(u, id)
    \/ \E u \in Users : \E id \in RequestIds : \E text \in CommentTexts :
           Comment(u, id, text)

Spec == Init /\ [][Next]_vars

----------------------------------------------------------------------------
(* ConcSpec: like and dislike requests interleaved at their awaits.        *)
(* A request in flight holds the document it fetched; nothing serialises   *)
(* two requests on the same post.                                          *)

Request(pc, op, u, id, post, stale) ==
    [pc |-> pc, op |-> op, u |-> u, id |-> id, post |-> post, stale |-> stale]

VoteOps == {"like", "dislike"}

OwnerMsg(op) ==
    IF op = "like" THEN "Post owners cannot like their own posts"
    ELSE "Post owners cannot dislike their own posts"
DuplicateMsg(op) ==
    IF op = "like" THEN "You already liked this post"
    ELSE "You already disliked this post"
AcceptedMsg(op) == IF op = "like" THEN "Liked" ELSE "Disliked"

\* the handler up to the document findById resolves to, and the owner check
StartVote(s, op, u, id) ==
    /\ inflight[s] = Idle
    /\ \A x \in Slots : x < s => inflight[x] # Idle
    /\ id \in DOMAIN posts =>
           Len(posts[id].likedBy) + Len(posts[id].dislikedBy) < MaxVotes
    /\ IF ~isValidObjectId(id)
       THEN res' = Error(400, "Invalid post id") /\ UNCHANGED inflight
       ELSE IF id \notin DOMAIN posts
       THEN res' = Error(404, "Post not found") /\ UNCHANGED inflight
       ELSE IF isOwner(posts[id], u)
       THEN res' = Error(403, OwnerMsg(op)) /\ UNCHANGED inflight
       ELSE /\ inflight' = [inflight EXCEPT
                              ![s] = Request("fetched", op, u, id, posts[id], FALSE)]
            /\ UNCHANGED res
    /\ UNCHANGED <<posts, now, acked>>

\* refreshPostStatusIfNeeded, the gate, the duplicate check
GateVote(s) ==
    /\ inflight[s].pc = "fetched"
    /\ LET r == inflight[s]
           g == refreshPostStatusIfNeeded(posts[r.id], r.post, now, now)
           dup == IF r.op = "like" THEN alreadyLiked(g.post, r.u)
                  ELSE alreadyDisliked(g.post, r.u)
       IN  /\ posts' = [posts EXCEPT ![r.id] = g.stored]
           /\ IF g.statusNow # "Live"
              THEN res' = Error(403, ExpiredMsg)
                   /\ inflight' = [inflight EXCEPT ![s] = Idle]
              ELSE IF dup
              THEN res' = Error(409, DuplicateMsg(r.op))
                   /\ inflight' = [inflight EXCEPT ![s] = Idle]
              ELSE res' = res
                   /\ inflight' = [inflight EXCEPT
                                     ![s] = [r EXCEPT !.pc = "saving", !.post = g.post]]
    /\ UNCHANGED <<now, acked>>

\* the vote applied to the fetched document, and its save landing
SaveVote(s) ==
    /\ inflight[s].pc = "saving"
    /\ LET r == inflight[s]
           doc == IF r.op = "like" THEN likeApply(r.post, r.u)
                  ELSE dislikeApply(r.post, r.u)
           w == save(posts[r.id], r.post, doc, r.stale, now)
       IN  IF w.ok
           THEN /\ posts' = [posts EXCEPT ![r.id] = w.stored]
                /\ res' = Response(200, AcceptedMsg(r.op), Counts(w.doc))
                /\ acked' = [acked EXCEPT ![r.id][r.u] = AcceptedMsg(r.op)]
                /\ inflight' =
                     [x \in Slots |->
                        IF x = s THEN Idle
                        ELSE IF inflight[x] # Idle /\ inflight[x].id = r.id
                        THEN [inflight[x] EXCEPT !.stale = TRUE]
                        ELSE inflight[x]]
           ELSE /\ res' = Error(500, "VersionError")
                /\ inflight' = [inflight EXCEPT ![s] = Idle]
                /\ UNCHANGED <<posts, acked>>
    /\ UNCHANGED now

ConcNext ==
    \/ Tick
    \/ \E u \in Users : CreatePost(u, GoodBody)
    \/ \E s \in Slots : \E op \in VoteOps : \E u \in Users : \E id \in ObjectIds :
           StartVote(s, op, u, id)
    \/ \E s \in Slots : GateVote(s)
    \/ \E s \in Slots : SaveVote(s)

ConcSpec == Init /\ [][ConcNext]_vars

----------------------------------------------------------------------------
(* Topic routes (src/unnamed/part_003).  find() hands back the matching    *)
(* documents in the order of the sort key; documents whose keys are equal  *)
(* come in any order.                                                      *)

Min(a, b) == IF a < b THEN a ELSE b
Max(a, b) == IF a > b THEN a ELSE b
Abs(n) == IF n < 0 THEN 0 - n ELSE n

Documents(store) == {store[id] : id \in DOMAIN store}

\* tuples of sort keys, all sorted descending (-1)
RECURSIVE Descending(_, _)
Descending(ka, kb) ==
    IF ka = <<>> THEN TRUE
    ELSE IF Head(ka) # Head(kb) THEN Head(ka) > Head(kb)
    ELSE Descending(Tail(ka), Tail(kb))

\* the orders in which find().sort() may return the documents docs, key[d] the sort key of d
sort(docs, key) ==
    {seq \in [1..Cardinality(docs) -> docs] :
        /\ \A i, j \in DOMAIN seq : i # j => seq[i] # seq[j]
        /\ \A i, j \in DOMAIN seq : i < j => Descending(key[seq[i]], key[seq[j]])}

\* cursor.skip(n) for n >= 0
skip(seq, n) == SubSeq(seq, n + 1, Len(seq))

\* cursor.limit(n): 0 sets no limit, a negative n limits to -n documents
limit(seq, n) == IF n = 0 THEN seq ELSE SubSeq(seq, 1, Min(Abs(n), Len(seq)))

tagged(post, topic) == \E i \in 1..Len(post.topics) : post.topics[i] = topic

TopicError == Error(400, "topic must be one of: Politics, Health, Sport, Tech")

\* variant: dislikesCount is left out of the sort
mostActiveKey_noDislikes(post) == <<post.likesCount, post.createdAt>>

mostActiveKey(post) == <<post.likesCount, post.dislikesCount, post.createdAt>>

\* GET /api/topics/:topic/most-active: the responses it may give
mostActiveRequest(store, topic) ==
    IF topic \notin TOPICS THEN {TopicError}
    ELSE
    LET docs == {p \in Documents(store) : tagged(p, topic)}
        found == sort(docs, [p \in docs |-> mostActiveKey(p)])
    IN  {IF seq = <<>> THEN Error(404, "No posts found for this topic")
         ELSE Response(200, "most-active", seq[1]) : seq \in found}

expiredKey(post) == <<post.expiresAt>>

\* the query string: each value absent, or the decimal digits of a number
Query(l, s) == [limit |-> l, skip |-> s]

\* GET /api/topics/:topic/expired: the responses it may give
expiredRequest(store, topic, q) ==
    IF topic \notin TOPICS THEN {TopicError}
    ELSE
    LET lim == Min(IF q.limit.kind = "undefined" THEN 20 ELSE q.limit.n, 50)
        skp == Max(IF q.skip.kind = "undefined" THEN 0 ELSE q.skip.n, 0)
        docs == {p \in Documents(store) : tagged(p, topic) /\ p.status = "Expired"}
        found == sort(docs, [p \in docs |-> expiredKey(p)])
    IN  {Response(200, "expired", limit(skip(seq, skp), lim)) : seq \in found}

----------------------------------------------------------------------------
(* StoreSpec: a collection of several posts, with the topic routes *)

\* ids requests of StoreSpec carry
StoreIds == {IdPool[i] : i \in 1..MaxPosts}

\* topics a request of StoreSpec names; "Finance" is no topic
RequestTopics == {"Tech", "Sport", "Finance"}

\* request bodies of POST /api/posts in StoreSpec
TopicBodies ==
    {[GoodBody EXCEPT !.expiresAt = DateString(e)] : e \in ClockValues}
        \cup {[GoodBody EXCEPT !.topics = Array(<<"Sport", "Health">>)]}

mostActiveOutcomes(topic) ==
    {Outcome(posts, r, now) : r \in mostActiveRequest(posts, topic)}

expiredOutcomes(topic, q) ==
    {Outcome(posts, r, now) : r \in expiredRequest(posts, topic, q)}

MostActive(topic) ==
    \E out \in mostActiveOutcomes(topic) : Apply(out)

ExpiredHistory(topic, q) ==
    \E out \in expiredOutcomes(topic, q) : Apply(out)

StoreNext ==
    \/ Tick
    \/ \E b \in TopicBodies : CreatePostUpTo(MaxPosts, "alice", b)
    \/ \E id \in StoreIds : GetPost(id)
    \/ \E id \in StoreIds : Like("bob", id)
    \/ \E id \in StoreIds : Dislike("bob", id)
    \/ \E topic \in RequestTopics : MostActive(topic)
    \/ \E topic \in RequestTopics : ExpiredHistory(topic, Query(Number(2), Undefined))

StoreSpec == Init /\ [][StoreNext]_vars

----------------------------------------------------------------------------
(* ThreadSpec: one post and the comments on it *)

ThreadNext ==
    \/ Tick
    \/ CreatePostUpTo(1, "alice", GoodBody)
    \/ \E id \in RequestIds : GetPost(id)
    \/ \E id \in RequestIds : Like("bob", id)
    \/ \E u \in {"alice", "bob"} : \E id \in RequestIds : \E text \in CommentTexts :
           CommentUpTo(MaxThread, u, id, text)

ThreadSpec == Init /\ [][ThreadNext]_vars

----------------------------------------------------------------------------
(* CreateSpec: creation requests of every kind, accepted and rejected *)

CreatedIds == {IdPool[i] : i \in 1..MaxCreated} \cup {"p0"}

CreateNext ==
    \/ Tick
    \/ \E u \in Users : \E b \in CreateBodies : CreatePostUpTo(MaxCreated, u, b)
    \/ \E id \in CreatedIds : GetPost(id)

CreateSpec == Init /\ [][CreateNext]_vars

----------------------------------------------------------------------------
(* PairSpec: requests on the posts of a collection of more than one post *)

PairIds == {IdPool[i] : i \in 1..MaxPair} \cup {"p0"}

PairNext ==
    \/ Tick
    \/ \E b \in TopicBodies : CreatePostUpTo(MaxPair, "alice", b)
    \/ \E id \in PairIds : GetPost(id)
    \/ \E id \in PairIds : Like("bob", id)
    \/ \E id \in PairIds : Dislike("bob", id)
    \/ \E id \in PairIds : Comment("bob", id, <<"c">>)

PairSpec == Init /\ [][PairNext]_vars

----------------------------------------------------------------------------
(* Properties *)

Stored == {posts[id] : id \in DOMAIN posts}

Count(arr, u) == Cardinality({i \in 1..Len(arr) : arr[i] = u})

I1(p) == p.likesCount = Len(p.likedBy) /\ p.dislikesCount = Len(p.dislikedBy)
I2(p) == \A u \in Users : ~(some(p.likedBy, u) /\ some(p.dislikedBy, u))
NoDuplicates(p) ==
    \A u \in Users : Count(p.likedBy, u) <= 1 /\ Count(p.dislikedBy, u) <= 1
I3(p) == ~some(p.likedBy, p.owner.userId) /\ ~some(p.dislikedBy, p.owner.userId)

\* the vote state and the comments of the stored post id
Interaction(store, id) ==
    <<store[id].likedBy, store[id].dislikedBy, store[id].likesCount,
      store[id].dislikesCount, store[id].comments>>

VoteState(store, id) ==
    <<store[id].likedBy, store[id].dislikedBy, store[id].likesCount,
      store[id].dislikesCount>>

\* C1: for every stored post, whatever like and dislike requests were
\* handled one after the other, likesCount is the length of likedBy and
\* dislikesCount the length of dislikedBy.
C1_CountsMatchCollections == \A p \in Stored : I1(p)

\* a dislike has just been accepted on a post that holds votes of both kinds
C1_Witness ==
    /\ res.code = 200 /\ res.msg = "Disliked"
    /\ \E p \in Stored : Len(p.likedBy) >= 1 /\ Len(p.dislikedBy) >= 1

\* C2: in every state reached by like and dislike requests handled one
\* after the other, no user is in both likedBy and dislikedBy of a post and
\* no user occurs twice in either.
C2_VotesExclusive == \A p \in Stored : I2(p) /\ NoDuplicates(p)

\* a like has just been accepted on a post that two users now like
C2_Witness ==
    /\ res.code = 200 /\ res.msg = "Liked"
    /\ \E p \in Stored : Len(p.likedBy) >= 2 /\ p.dislikedBy = <<>>

\* C3: a like or dislike by the owner of the post is rejected (403, owners
\* cannot vote) and leaves the collection as it was, whatever votes the post
\* holds; the owner is never in likedBy or dislikedBy.
C3_OwnerNeverVotes ==
    \A id \in DOMAIN posts :
        /\ I3(posts[id])
        /\ \A out \in likeOutcomes(posts[id].owner.userId, id) :
              /\ out.res = Error(403, "Post owners cannot like their own posts")
              /\ out.posts = posts
        /\ \A out \in dislikeOutcomes(posts[id].owner.userId, id) :
              /\ out.res = Error(403, "Post owners cannot dislike their own posts")
              /\ out.posts = posts

\* the owner has just been turned away from a post that holds votes
C3_Witness ==
    /\ res.code = 403
    /\ res.msg = "Post owners cannot dislike their own posts"
    /\ \E p \in Stored : Len(p.likedBy) >= 1 /\ Len(p.dislikedBy) >= 1

\* the store after u's like and then u's dislike of post id, both accepted:
\* the like is gated at t1 and saved at t2, the dislike gated at t3, saved at t4
LikeThenDislike(id, u, t1, t2, t3, t4) ==
    LET a == likeRequest(posts, id, u, t1, t1, t2)
        b == dislikeRequest(a.posts, id, u, t3, t3, t4)
    IN  [accepted |-> a.res.code = 200 /\ b.res.code = 200, post |-> b.posts[id]]

DislikeThenLike(id, u, t1, t2, t3, t4) ==
    LET a == dislikeRequest(posts, id, u, t1, t1, t2)
        b == likeRequest(a.posts, id, u, t3, t3, t4)
    IN  [accepted |-> a.res.code = 200 /\ b.res.code = 200, post |-> b.posts[id]]

\* the clock readings of two requests handled one after the other
TwoRequestReadings ==
    {r \in [1..4 -> Later(now)] : r[1] <= r[2] /\ r[2] <= r[3] /\ r[3] <= r[4]}

\* C4 as claimed: after an accepted like followed by an accepted dislike of
\* the same user the user is in dislikedBy only, likesCount is what it was
\* before the like and dislikesCount is one higher than before the like;
\* symmetrically for dislike then like.
C4_ToggleAsClaimed ==
    \A id \in DOMAIN posts : \A u \in Users : \A r \in TwoRequestReadings :
        LET ld == LikeThenDislike(id, u, r[1], r[2], r[3], r[4])
            dl == DislikeThenLike(id, u, r[1], r[2], r[3], r[4])
        IN  /\ ld.accepted =>
                /\ ~some(ld.post.likedBy, u) /\ some(ld.post.dislikedBy, u)
                /\ ld.post.likesCount = posts[id].likesCount
                /\ ld.post.dislikesCount = posts[id].dislikesCount + 1
            /\ dl.accepted =>
                /\ ~some(dl.post.dislikedBy, u) /\ some(dl.post.likedBy, u)
                /\ dl.post.dislikesCount = posts[id].dislikesCount
                /\ dl.post.likesCount = posts[id].likesCount + 1

\* C4 (amended): after an accepted like followed by an accepted dislike of
\* the same user the user is in dislikedBy only and likesCount is what it
\* was before the like; dislikesCount is one higher than before the like
\* when the user held no dislike before the like, and what it was before
\* the like when the like itself replaced a dislike.  Symmetrically for
\* dislike then like.
C4_Toggle ==
    \A id \in DOMAIN posts : \A u \in Users : \A r \in TwoRequestReadings :
        LET ld == LikeThenDislike(id, u, r[1], r[2], r[3], r[4])
            dl == DislikeThenLike(id, u, r[1], r[2], r[3], r[4])
        IN  /\ ld.accepted =>
                /\ ~some(ld.post.likedBy, u) /\ Count(ld.post.dislikedBy, u) = 1
                /\ ld.post.likesCount = posts[id].likesCount
                /\ ld.post.dislikesCount =
                     IF some(posts[id].dislikedBy, u)
                     THEN posts[id].dislikesCount
                     ELSE posts[id].dislikesCount + 1
            /\ dl.accepted =>
                /\ ~some(dl.post.dislikedBy, u) /\ Count(dl.post.likedBy, u) = 1
                /\ dl.post.dislikesCount = posts[id].dislikesCount
                /\ dl.post.likesCount =
                     IF some(posts[id].likedBy, u)
                     THEN posts[id].likesCount
                     ELSE posts[id].likesCount + 1

\* a Live post that holds another user's like, on which a user without a
\* vote has a like and then a dislike accepted
C4_Witness ==
    \E id \in DOMAIN posts : \E u \in Users :
        /\ ~some(posts[id].likedBy, u) /\ ~some(posts[id].dislikedBy, u)
        /\ posts[id].likesCount >= 1
        /\ LikeThenDislike(id, u, now, now, now, now).accepted

Expired(id) == now >= posts[id].expiresAt
Live(id) == now < posts[id].expiresAt

ValidText(text) == Len(trim(text)) >= 1 /\ Len(trim(text)) <= 500

\* C5: on a Live post a like by a user who is in likedBy, and a dislike by
\* a user who is in dislikedBy, is answered 409 with the duplicate-vote
\* message, which no other outcome carries, and leaves likedBy, dislikedBy
\* and both counters as they were.
C5_DuplicateVoteRejected ==
    \A u \in Users : \A id \in DOMAIN posts :
        /\ \A out \in likeOutcomes(u, id) :
              /\ (Live(id) /\ some(posts[id].likedBy, u))
                 => /\ out.res = Error(409, "You already liked this post")
                    /\ VoteState(out.posts, id) = VoteState(posts, id)
              /\ out.res.code = 409
                 => /\ out.res.msg = "You already liked this post"
                    /\ some(posts[id].likedBy, u)
        /\ \A out \in dislikeOutcomes(u, id) :
              /\ (Live(id) /\ some(posts[id].dislikedBy, u))
                 => /\ out.res = Error(409, "You already disliked this post")
                    /\ VoteState(out.posts, id) = VoteState(posts, id)
              /\ out.res.code = 409
                 => /\ out.res.msg = "You already disliked this post"
                    /\ some(posts[id].dislikedBy, u)

\* a user who already dislikes a Live post has just been answered 409
C5_Witness ==
    /\ res = Error(409, "You already disliked this post")
    /\ \E id \in DOMAIN posts : Live(id) /\ Len(posts[id].dislikedBy) >= 1

\* the outcomes of every like, dislike and comment u may send for post id
interactionOutcomes(u, id) ==
    likeOutcomes(u, id) \cup dislikeOutcomes(u, id)
        \cup UNION {commentOutcomes(u, id, text) : text \in CommentTexts}

\* C6 as claimed: every like, dislike or comment on a post whose expiry has
\* passed is answered with the expired error, whoever sends it.
C6_ExpiredAsClaimed ==
    \A u \in Users : \A id \in DOMAIN posts :
        Expired(id) =>
            \A out \in interactionOutcomes(u, id) : out.res = Error(403, ExpiredMsg)

\* C7: with requests handled one after the other and a clock that never
\* goes back, a post that resolves to Expired resolves to Expired ever
\* after, and from then on no request changes its likedBy, dislikedBy,
\* likesCount, dislikesCount or comments.
C7_ExpiryPermanent ==
    [][\A id \in DOMAIN posts :
        Expired(id)
        => /\ id \in DOMAIN posts'
           /\ computeStatus(posts'[id].expiresAt, now') = "Expired"
           /\ Interaction(posts', id) = Interaction(posts, id)
      ]_vars

\* an expired post that holds a vote and a comment has just turned a
\* request away
C7_Witness ==
    /\ res = Error(403, ExpiredMsg)
    /\ \E id \in DOMAIN posts :
          /\ Expired(id) /\ posts[id].status = "Expired"
          /\ Len(posts[id].likedBy) >= 1
          /\ Len(posts[id].comments) >= 1

Quiescent == \A s \in Slots : inflight[s] = Idle

Reflected(id) ==
    \A u \in Users :
        /\ acked[id][u] = "Liked" => some(posts[id].likedBy, u)
        /\ acked[id][u] = "Disliked" => some(posts[id].dislikedBy, u)

\* C8: whatever the interleaving of like and dislike requests on a post,
\* once every request has been answered the counters equal the lengths of
\* the collections, no user is in both collections or twice in one, the
\* owner is in neither, and every user's last accepted vote is recorded.
C8_RaceFree ==
    Quiescent =>
        \A id \in DOMAIN posts :
            /\ I1(posts[id]) /\ I2(posts[id]) /\ NoDuplicates(posts[id])
            /\ I3(posts[id])
            /\ Reflected(id)

OwnerError(kind) == Error(403, OwnerMsg(kind))
DuplicateError(kind) == Error(409, DuplicateMsg(kind))
Holds(kind, id, u) ==
    IF kind = "like" THEN some(posts[id].likedBy, u)
    ELSE some(posts[id].dislikedBy, u)
voteOutcomes(kind, u, id) ==
    IF kind = "like" THEN likeOutcomes(u, id) ELSE dislikeOutcomes(u, id)

\* C9 as claimed: a vote is checked for expiry first, then for the owner,
\* then for a duplicate, and the first check that fails decides the answer;
\* the owner's vote on an expired post gets the expired error.
C9_OrderAsClaimed ==
    \A kind \in VoteOps : \A u \in Users : \A id \in DOMAIN posts :
        \A out \in voteOutcomes(kind, u, id) :
            IF Expired(id) THEN out.res = Error(403, ExpiredMsg)
            ELSE IF posts[id].owner.userId = u THEN out.res = OwnerError(kind)
            ELSE IF Holds(kind, id, u) THEN out.res = DuplicateError(kind)
            ELSE out.res.code = 200

\* C10: GET of an existing post answers 200 with the post carrying the
\* status Live when now < expiresAt and Expired when now >= expiresAt; the
\* stored status becomes that status when it differed, and the collection
\* is left as it was when it did not.
C10_GetResolvesStatus ==
    \A id \in DOMAIN posts : \A out \in getOutcomes(id) :
        LET resolved == IF now < posts[id].expiresAt THEN "Live" ELSE "Expired"
        IN  /\ out.res = Response(200, "post", [posts[id] EXCEPT !.status = resolved])
            /\ out.posts[id].status = resolved
            /\ out.posts = [posts EXCEPT ![id].status = resolved]
            /\ posts[id].status = resolved => out.posts = posts

\* a GET at the very instant of expiry has just returned the post as
\* Expired and stored that status
C10_Witness ==
    /\ res.code = 200 /\ res.msg = "post"
    /\ res.data.status = "Expired"
    /\ now = res.data.expiresAt
    /\ posts[res.data._id].status = "Expired"

Range(seq) == {seq[i] : i \in 1..Len(seq)}

\* C11: at the instant of the query the expired history of a topic holds
\* exactly the posts tagged with the topic whose expiresAt has passed
\* (now >= expiresAt), whether or not a request has touched them since.
C11_ExpiredHistoryByClock ==
    \A topic \in TOPICS :
        \A r \in expiredRequest(posts, topic, Query(Undefined, Undefined)) :
            Range(r.data) =
                {p \in Documents(posts) : tagged(p, topic) /\ now >= p.expiresAt}

\* limit and skip values of the query string
LimitValues == -1..3
SkipValues == -1..2

\* C12: for every integer limit and skip the expired history is the posts
\* tagged with the topic and stored as Expired, ordered by expiresAt
\* descending, from offset max(skip, 0) on, and holds at most
\* min(max(limit, 0), 50) posts.
C12_ExpiredHistoryPage ==
    \A topic \in TOPICS : \A l \in LimitValues : \A k \in SkipValues :
        \A r \in expiredRequest(posts, topic, Query(Number(l), Number(k))) :
            LET matching == {p \in Documents(posts) :
                                tagged(p, topic) /\ p.status = "Expired"}
                from == IF k > 0 THEN k ELSE 0
                most == IF l < 0 THEN 0 ELSE IF l > 50 THEN 50 ELSE l
                rest == IF Cardinality(matching) > from
                        THEN Cardinality(matching) - from ELSE 0
            IN  /\ r.code = 200
                /\ Range(r.data) \subseteq matching
                /\ \A i, j \in DOMAIN r.data :
                      i < j => /\ r.data[i] # r.data[j]
                               /\ r.data[i].expiresAt >= r.data[j].expiresAt
                /\ Len(r.data) = IF rest < most THEN rest ELSE most
                /\ \A p \in matching \ Range(r.data) :
                      \/ r.data = <<>>
                      \/ p.expiresAt >= r.data[1].expiresAt
                      \/ p.expiresAt <= r.data[Len(r.data)].expiresAt

\* C13: for a topic of the enumeration, the most active post is a post
\* tagged with the topic, of any status, that no other post tagged with the
\* topic beats on likesCount, then dislikesCount, then createdAt; the answer
\* is 404 exactly when no post is tagged with the topic.
C13_MostActive ==
    \A topic \in TOPICS : \A r \in mostActiveRequest(posts, topic) :
        LET candidates == {p \in Documents(posts) : tagged(p, topic)}
        IN  IF candidates = {}
            THEN r = Error(404, "No posts found for this topic")
            ELSE /\ r.code = 200
                 /\ r.data \in candidates
                 /\ \A p \in candidates :
                       \/ r.data.likesCount > p.likesCount
                       \/ /\ r.data.likesCount = p.likesCount
                          /\ r.data.dislikesCount > p.dislikesCount
                       \/ /\ r.data.likesCount = p.likesCount
                          /\ r.data.dislikesCount = p.dislikesCount
                          /\ r.data.createdAt >= p.createdAt

\* the most active post of a topic has just been returned ahead of a newer
\* post with as many likes and fewer dislikes
C13_Witness ==
    /\ res.code = 200 /\ res.msg = "most-active"
    /\ \E p \in Documents(posts) :
          /\ tagged(p, "Tech") /\ tagged(res.data, "Tech")
          /\ p.likesCount = res.data.likesCount
          /\ p.dislikesCount < res.data.dislikesCount
          /\ p.createdAt > res.data.createdAt

\* C14: an accepted comment on a Live post puts exactly one record, with
\* the trimmed text and the identity of its author, at the end of comments
\* and answers with the new length, the comments before it staying where
\* and what they were; and no step of any request makes the comments of a
\* post anything but what they were followed by new comments.
C14_CommentsAppendOnly ==
    /\ [](\A u \in Users : \A id \in DOMAIN posts : \A text \in CommentTexts :
            \A out \in commentOutcomes(u, id, text) :
                out.res.code = 201 =>
                    LET old == posts[id].comments
                        new == out.posts[id].comments
                    IN  /\ Live(id)
                        /\ Len(new) = Len(old) + 1
                        /\ SubSeq(new, 1, Len(old)) = old
                        /\ new[Len(new)].text = trim(text)
                        /\ new[Len(new)].user = Identity(u)
                        /\ out.res.data.commentsCount = Len(new)
                        /\ out.res.data.comment = new[Len(new)])
    /\ [][\A id \in DOMAIN posts :
            /\ id \in DOMAIN posts'
            /\ Len(posts'[id].comments) >= Len(posts[id].comments)
            /\ SubSeq(posts'[id].comments, 1, Len(posts[id].comments))
                 = posts[id].comments]_vars

\* a second comment, by another user, has just been added behind the first
C14_Witness ==
    /\ res.code = 201 /\ res.msg = "Comment added"
    /\ res.data.commentsCount = 2
    /\ \E id \in DOMAIN posts :
          /\ Len(posts[id].comments) = 2
          /\ posts[id].comments[2] = res.data.comment
          /\ posts[id].comments[1].user # posts[id].comments[2].user

\* C15: on a Live post the owner's comment with a valid text (1 to 500
\* characters after trimming) is accepted and appended under the owner's
\* identity, whereas the owner's like and dislike of the same post are
\* rejected.
C15_OwnerMayComment ==
    \A id \in DOMAIN posts :
        LET o == posts[id].owner.userId
        IN  Live(id) =>
              /\ \A text \in CommentTexts : \A out \in commentOutcomes(o, id, text) :
                    ValidText(text) =>
                        /\ out.res.code = 201
                        /\ Len(out.posts[id].comments) = Len(posts[id].comments) + 1
                        /\ out.posts[id].comments[Len(out.posts[id].comments)]
                             = out.res.data.comment
                        /\ out.res.data.comment.user = posts[id].owner
                        /\ out.res.data.comment.text = trim(text)
              /\ \A out \in likeOutcomes(o, id) \cup dislikeOutcomes(o, id) :
                    out.res.code = 403 /\ out.posts = posts

\* the owner's comment has just been added to the owner's own post, which
\* holds another user's vote
C15_Witness ==
    /\ res.code = 201 /\ res.msg = "Comment added"
    /\ \E id \in DOMAIN posts :
          /\ res.data.comment.user = posts[id].owner
          /\ posts[id].comments # <<>>
          /\ Len(posts[id].likedBy) + Len(posts[id].dislikedBy) >= 1

ValidTopics(topics) ==
    /\ topics.isArray
    /\ topics.items # <<>>
    /\ Range(topics.items) \subseteq TOPICS

\* C16: a creation whose topics are empty or hold an element outside
\* {Politics, Health, Sport, Tech} is answered with a validation error (400)
\* and adds no post; an accepted creation adds one post with likesCount =
\* dislikesCount = 0, empty likedBy, dislikedBy and comments, and the status
\* the resolver gives for its expiresAt at the time of the save, Expired
\* when the expiresAt supplied is not in the future.
C16_CreateValidated ==
    \A u \in Users : \A b \in CreateBodies : \A out \in createOutcomes(u, b) :
        /\ ~ValidTopics(b.topics) => out.res.code = 400 /\ out.posts = posts
        /\ out.res.code # 201 => out.posts = posts
        /\ out.res.code = 201 =>
              LET new == out.res.data
              IN  /\ ValidTopics(b.topics)
                  /\ new._id \notin DOMAIN posts
                  /\ DOMAIN out.posts = DOMAIN posts \cup {new._id}
                  /\ out.posts[new._id] = new
                  /\ \A id \in DOMAIN posts : out.posts[id] = posts[id]
                  /\ new.likesCount = 0 /\ new.dislikesCount = 0
                  /\ new.likedBy = <<>> /\ new.dislikedBy = <<>>
                  /\ new.comments = <<>>
                  /\ new.owner = Identity(u)
                  /\ new.status = IF out.clock < new.expiresAt
                                  THEN "Live" ELSE "Expired"
                  /\ new.expiresAt <= now => new.status = "Expired"

\* a creation with unfit topics has just been turned away, after a post
\* was created Expired and another Live
C16_Witness ==
    /\ res = Error(400, "Topics must include")
    /\ \E id \in DOMAIN posts : posts[id].status = "Live"
    /\ \E id \in DOMAIN posts :
          /\ posts[id].expiresAt <= posts[id].createdAt
          /\ posts[id].status = "Expired"
          /\ posts[id].likesCount = 0 /\ posts[id].likedBy = <<>>

\* the fields of a post fixed at its creation
Core(post) ==
    <<post._id, post.title, post.topics, post.body, post.createdAt,
      post.expiresAt, post.owner>>

\* the outcomes of every like, dislike, comment and GET request for post id
postOutcomes(id) ==
    getOutcomes(id)
        \cup UNION {interactionOutcomes(u, id) : u \in Users}

\* C17: a like, dislike, comment or GET request for a post leaves the id,
\* title, topics, body, createdAt, expiresAt and owner of every post as they
\* were, leaves every other post as it was in every field, and removes no
\* post from the collection.
C17_FrameOfRequests ==
    \A id \in PairIds : \A out \in postOutcomes(id) :
        /\ DOMAIN out.posts = DOMAIN posts
        /\ \A j \in DOMAIN posts :
              /\ Core(out.posts[j]) = Core(posts[j])
              /\ j # id => out.posts[j] = posts[j]

\* a like has just been accepted on one of two posts, later than the
\* creation of that post and while the other post holds a dislike and a
\* comment
C17_Witness ==
    /\ res.code = 200 /\ res.msg = "Liked"
    /\ \E i, j \in DOMAIN posts :
          /\ i # j
          /\ posts[i].likedBy # <<>> /\ posts[i].createdAt < now
          /\ posts[j].dislikedBy # <<>> /\ posts[j].comments # <<>>

\* C18: a like, dislike or comment whose save happens at an instant at or
\* after expiresAt writes no vote and no comment to the stored post, also
\* when the request passed the Live gate before expiresAt.
C18_NothingPersistedAfterExpiry ==
    \A u \in Users : \A id \in DOMAIN posts :
        \A out \in interactionOutcomes(u, id) :
            out.clock >= posts[id].expiresAt =>
                Interaction(out.posts, id) = Interaction(posts, id)

\* the only change a request made to the stored posts is the status of post
\* id going from Live to Expired
OnlyExpires(out, id) ==
    /\ posts[id].status = "Live"
    /\ out.posts = [posts EXCEPT ![id].status = "Expired"]

C20_VoteTouchesOnlyVoter ==
    \A u \in Users : \A id \in DOMAIN posts :
        /\ \A out \in likeOutcomes(u, id) :
              out.res.code = 200 =>
                  LET old == posts[id]
                      new == out.posts[id]
                  IN  /\ \A v \in Users \ {u} :
                            /\ Count(new.likedBy, v) = Count(old.likedBy, v)
                            /\ Count(new.dislikedBy, v) = Count(old.dislikedBy, v)
                      /\ new.likesCount = old.likesCount + 1
                      /\ new.dislikesCount =
                            old.dislikesCount
                              - (IF some(old.dislikedBy, u) THEN 1 ELSE 0)
                      /\ new.comments = old.comments
        /\ \A out \in dislikeOutcomes(u, id) :
              out.res.code = 200 =>
                  LET old == posts[id]
                      new == out.posts[id]
                  IN  /\ \A v \in Users \ {u} :
                            /\ Count(new.likedBy, v) = Count(old.likedBy, v)
                            /\ Count(new.dislikedBy, v) = Count(old.dislikedBy, v)
                      /\ new.dislikesCount = old.dislikesCount + 1
                      /\ new.likesCount =
                            old.likesCount
                              - (IF some(old.likedBy, u) THEN 1 ELSE 0)
                      /\ new.comments = old.comments

\* a like has just been accepted on a post that holds another user's
\* dislike and a comment
C20_Witness ==
    /\ res = Response(200, "Liked", [likesCount |-> 1, dislikesCount |-> 1])
    /\ \E id \in DOMAIN posts :
          /\ Len(posts[id].likedBy) = 1 /\ Len(posts[id].dislikedBy) = 1
          /\ posts[id].comments # <<>>

====
